---- MODULE Spec2Model ----
(***************************************************************************)
(* Model of johanbrandhorst/redeploy: the Docker Hub webhook handler       *)
(* (handler.DockerHook) and the parts of the configuration package it      *)
(* depends on.  Every engine call of ServeHTTP is one step; its result     *)
(* (success or failure) is an input chosen by the environment.             *)
(***************************************************************************)
EXTENDS Naturals, Integers, Sequences, FiniteSets, TLC

(***************************************************************************)
(* Bounds                                                                  *)
(***************************************************************************)
\* Number of webhook events the server receives before the model stops.
MaxEvents == 2

\* Number of times one service is compiled when compile is checked on its own.
MaxCompiles == 2

\* Number of outbound calls that fail, over all events.
MaxFailures == 2

\* The goroutines net/http runs ServeHTTP on; one handles one event at a time.
Reqs == {"h1", "h2"}

(***************************************************************************)
(* Program constants                                                       *)
(***************************************************************************)
StatusOK == 200
StatusBadRequest == 400
StatusInternalServerError == 500

(***************************************************************************)
(* Configurations handed to handler.New.  Services are in name order, as   *)
(* LoadConfig leaves them.  A device is the sequence of its characters.    *)
(***************************************************************************)
\* Environment maps a key to <<>> (no value) or <<value>>; Ulimits maps a
\* name to its soft and hard limit.
NoEnvironment == [k \in {} |-> <<>>]
NoUlimits == [k \in {} |-> [Soft |-> 0, Hard |-> 0]]

\* Deploy.RestartPolicy is <<>> (nil) or <<policy>>; the policy's MaxAttempts
\* is <<>> (nil) or <<count>>, the count a uint64.
NoRestartPolicy == <<>>

Svc(name, image, devices) ==
    [Name |-> name, Image |-> image, Devices |-> devices,
     Environment |-> NoEnvironment, Ulimits |-> NoUlimits,
     Restart |-> "", RestartPolicy |-> NoRestartPolicy]

\* A 64-bit word as four 16-bit limbs, the most significant first.
LimbBase == 65536

Limbs == 1..4

U64(n) == <<0, 0, 0, n>>

MaxInt64 == <<(LimbBase \div 2) - 1, LimbBase - 1, LimbBase - 1, LimbBase - 1>>

MaxInt64Plus1 == <<LimbBase \div 2, 0, 0, 0>>

MaxUint64 == <<LimbBase - 1, LimbBase - 1, LimbBase - 1, LimbBase - 1>>

DevOk  == <<"/", "a", ":", "/", "b">>
DevBad == <<"/", "a">>
DevTwice == <<"/", "a", ":", "/", "b", ":", "r">>

ConfFanOut ==
    << Svc("db", "other/db:v1", <<>>),
       Svc("web", "acme/app", <<DevOk>>),
       Svc("worker", "acme/app", <<>>) >>

ConfTagged ==
    << Svc("web", "acme/app:latest", <<>>),
       Svc("worker", "acme/app", <<>>) >>

ConfBadDevice ==
    << Svc("web", "acme/app", <<DevBad>>) >>

ConfTwoSeparators ==
    << Svc("db", "other/db", <<DevOk>>),
       Svc("web", "acme/app", <<DevOk, DevTwice>>) >>

\* Services in another order than that of their names.
ConfUnsorted ==
    << Svc("worker", "other/db", <<>>),
       Svc("db", "other/db", <<>>) >>

ConfNoImage ==
    << Svc("db", "other/db", <<>>),
       Svc("web", "", <<>>) >>

\* How the Config reaches handler.New: returned by LoadConfig, as in main, or
\* built by the caller, as in the handler's test.
Origins == {"LoadConfig", "literal"}

\* The configurations with the way each reaches handler.New.
Inputs ==
    { <<ConfFanOut, "LoadConfig">>, <<ConfTagged, "LoadConfig">>,
      <<ConfBadDevice, "LoadConfig">>, <<ConfTwoSeparators, "literal">>,
      <<ConfUnsorted, "LoadConfig">>, <<ConfUnsorted, "literal">>,
      <<ConfNoImage, "LoadConfig">>, <<ConfNoImage, "literal">> }

\* The service names of the configurations, in increasing string order.
NameOrder == <<"db", "web", "worker">>

\* Services compile is tried on by itself.
Environments ==
    { NoEnvironment,
      [k \in {"A"} |-> <<"1">>],
      [k \in {"A", "B"} |-> IF k = "A" THEN <<"1">> ELSE <<>>] }

UlimitSets ==
    { NoUlimits,
      [k \in {"nofile"} |-> [Soft |-> 1, Hard |-> 2]],
      [k \in {"nofile", "nproc"} |-> IF k = "nofile" THEN [Soft |-> 1, Hard |-> 2]
                                                     ELSE [Soft |-> 3, Hard |-> 3]] }

DeviceLists == {<<>>, <<DevOk>>, <<DevBad>>, <<DevTwice>>, <<DevOk, DevBad>>}

\* max_attempts values: small ones and the ones around the int64 limit.
Attempts == {U64(0), U64(3), MaxInt64, MaxInt64Plus1, MaxUint64}

RestartPolicies ==
    {NoRestartPolicy, <<[Condition |-> "on-failure", MaxAttempts |-> <<>>]>>} \cup
    {<<[Condition |-> "on-failure", MaxAttempts |-> <<a>>]>> : a \in Attempts}

Restarts == {"", "always"}

Services ==
    { [Svc("web", "acme/app", d) EXCEPT !.Environment = e, !.Ulimits = u] :
          d \in DeviceLists, e \in Environments, u \in UlimitSets } \cup
    { [Svc("web", "acme/app", d) EXCEPT !.Restart = l, !.RestartPolicy = p] :
          d \in {<<>>, <<DevBad>>}, l \in Restarts, p \in RestartPolicies }

(***************************************************************************)
(* Webhook bodies: either not a JSON document of the HookRequest shape, or *)
(* a JSON object given by the fields it carries.                           *)
(***************************************************************************)
RepoNames == {"acme/app", "other/db"}
Tags == {"latest", "v1"}
CallbackURLs == {"http://cb/done"}

Json(fields) == [valid |-> TRUE, fields |-> fields]

Garbage == [valid |-> FALSE, fields |-> [k \in {} |-> ""]]

EmptyObject == Json([k \in {} |-> ""])

Push(url, repo, tag) ==
    Json([k \in {"callback_url", "repo_name", "tag"} |->
             IF k = "callback_url" THEN url ELSE IF k = "repo_name" THEN repo ELSE tag])

Bodies ==
    {Garbage, EmptyObject} \cup
    {Push(u, n, t) : u \in CallbackURLs, n \in RepoNames, t \in Tags}

(***************************************************************************)
(* Engine containers as ListContainers reports them (docker.APIContainers):*)
(* the engine names containers with a leading slash.                       *)
(***************************************************************************)
Ctr(id, names, state) == [ID |-> id, Names |-> names, State |-> state]

EngineStates ==
    { <<>>,
      << Ctr("c1", <<"/web">>, "running") >>,
      << Ctr("c1", <<"/webx", "/db/web">>, "running"),
         Ctr("c2", <<"/proxy/web", "/worker">>, "exited") >> }

\* An ID the engine has not used: the n-th one it makes up.
NewID(n) == "n" \o ToString(n)

\* How an engine picks the ID it answers a create with: one it has not used
\* so far, or always the same one, which is also the ID of the container it
\* lists (the engine of TestHandler).
IDPolicies == {"unused", "constant"}

\* The ID of the n-th container an engine of that policy creates.
CreateID(policy, n) == IF policy = "constant" THEN "c1" ELSE NewID(n)

VARIABLES
    conf,            \* the services of the *config.Config passed to New
    origin,          \* where conf comes from
    idPolicy,        \* how the engine picks the ID it answers a create with
    compileIn,       \* the Service compiled on its own
    compiled,        \* the results of compiling compileIn, in order
    phase,           \* "init" before New returns, then "serving" or "failed"
    imageToService,  \* DockerHook.imageToService
    engine,          \* the engine's containers, in list order
    created,         \* number of containers the engine has created
    events,          \* number of events received so far
    pc,              \* per event: the call ServeHTTP is about to make
    body,            \* per event: req.Body
    hook,            \* per event: the decoded HookRequest
    foundServices,   \* per event: the services resolved for the image
    idx,             \* per event: position of the loop over foundServices
    containers,      \* per event: the listing ListContainers returned
    id,              \* per event: id of the existing container found
    cID,             \* per event: c.ID returned by CreateContainer
    calls            \* per event: outbound calls and response writes, in order

vars == <<conf, origin, idPolicy, compileIn, compiled, phase, imageToService, engine, created, events,
          pc, body, hook, foundServices, idx, containers, id, cID, calls>>

(***************************************************************************)
(* Pure functions of the config and handler packages                       *)
(***************************************************************************)
RECURSIVE SplitFrom(_, _, _)
\* Pieces of s from position i on, cur being the piece collected so far.
SplitFrom(s, i, cur) ==
    IF i > Len(s) THEN <<cur>>
    ELSE IF s[i] = ":" THEN <<cur>> \o SplitFrom(s, i + 1, <<>>)
    ELSE SplitFrom(s, i + 1, Append(cur, s[i]))

\* strings.Split(device, ":")
Split(device) == SplitFrom(device, 1, <<>>)

RECURSIVE CompileDevicesLax(_, _, _)
\* CompileDevices rejecting only a device without separator.
CompileDevicesLax(devices, i, acc) ==
    IF i > Len(devices) THEN [err |-> FALSE, Devices |-> acc]
    ELSE LET paths == Split(devices[i]) IN
         IF Len(paths) < 2 THEN [err |-> TRUE, Devices |-> acc]
         ELSE CompileDevicesLax(devices, i + 1,
                  Append(acc, [PathOnHost |-> paths[1], PathInContainer |-> paths[2]]))

RECURSIVE CompileDevices(_, _, _)
\* The loop over s.Devices: stops at the first device that does not split in two.
CompileDevices(devices, i, acc) ==
    IF i > Len(devices) THEN [err |-> FALSE, Devices |-> acc]
    ELSE LET paths == Split(devices[i]) IN
         IF Len(paths) # 2 THEN [err |-> TRUE, Devices |-> acc]
         ELSE CompileDevices(devices, i + 1,
                  Append(acc, [PathOnHost |-> paths[1], PathInContainer |-> paths[2]]))

\* The orders in which a range statement may visit the keys of a map.
RangeOrders(m) ==
    {o \in [1..Cardinality(DOMAIN m) -> DOMAIN m] :
        \A i, j \in 1..Cardinality(DOMAIN m) : o[i] = o[j] => i = j}

\* One order for each map CreateContainerOptions ranges over.
MapOrders(s) == [Env : RangeOrders(s.Environment), Ulimits : RangeOrders(s.Ulimits)]

\* The loop over s.Ulimits, visiting the names in the order o.
CompileUlimits(ulimits, o) ==
    [i \in 1..Len(o) |-> [Name |-> o[i], Soft |-> ulimits[o[i]].Soft, Hard |-> ulimits[o[i]].Hard]]

\* The loop over s.Environment, visiting the keys in the order o: KEY=value,
\* or KEY= for a key without a value.
CompileEnv(environment, o) ==
    [i \in 1..Len(o) |->
        IF environment[o[i]] = <<>> THEN o[i] \o "="
        ELSE o[i] \o "=" \o environment[o[i]][1]]

RECURSIVE AddOne(_, _)
\* u + 1 on the limbs from i down, the carry out of the word dropped.
AddOne(u, i) ==
    IF i = 0 THEN u
    ELSE IF u[i] = LimbBase - 1 THEN AddOne([u EXCEPT ![i] = 0], i - 1)
    ELSE [u EXCEPT ![i] = u[i] + 1]

\* 2^64 - u, the two's complement of the word.
Negate(u) == AddOne([i \in Limbs |-> (LimbBase - 1) - u[i]], 4)

\* A Go int (64 bits on amd64) as sign and magnitude.
GoInt(n) == [neg |-> FALSE, mag |-> U64(n)]

\* int(u) of a uint64: the same 64 bits read as a signed number.
ToInt(u) ==
    IF u[1] >= LimbBase \div 2 THEN [neg |-> TRUE, mag |-> Negate(u)]
    ELSE [neg |-> FALSE, mag |-> u]

\* MaximumRetryCount of the deploy-level path.
RetryCount(policy) ==
    IF policy.MaxAttempts # <<>> THEN ToInt(policy.MaxAttempts[1]) ELSE GoInt(0)

\* The restart policy branch of CreateContainerOptions.
CompileRestartPolicy(s) ==
    IF s.RestartPolicy # NoRestartPolicy
    THEN [Name |-> s.RestartPolicy[1].Condition,
          MaximumRetryCount |-> RetryCount(s.RestartPolicy[1])]
    ELSE [Name |-> s.Restart, MaximumRetryCount |-> GoInt(0)]

\* docker.RestartPolicy{}
ZeroRestartPolicy == [Name |-> "", MaximumRetryCount |-> GoInt(0)]

\* Service.CreateContainerOptions, its range statements visiting in the orders o.
\* A device error returns the options built so far.
CreateContainerOptions(s, o) ==
    LET d == CompileDevices(s.Devices, 1, <<>>) IN
    [err |-> d.err, Name |-> s.Name, Image |-> s.Image,
     Ulimits |-> CompileUlimits(s.Ulimits, o.Ulimits),
     Devices |-> d.Devices,
     RestartPolicy |-> IF d.err THEN ZeroRestartPolicy ELSE CompileRestartPolicy(s),
     Env |-> IF d.err THEN <<>> ELSE CompileEnv(s.Environment, o.Env)]

\* a < b for the strings of NameOrder.
Less(a, b) ==
    \E i, j \in 1..Len(NameOrder) : NameOrder[i] = a /\ NameOrder[j] = b /\ i < j

RECURSIVE Insert(_, _)
Insert(sorted, s) ==
    IF sorted = <<>> THEN <<s>>
    ELSE IF Less(s.Name, Head(sorted).Name) THEN <<s>> \o sorted
    ELSE <<Head(sorted)>> \o Insert(Tail(sorted), s)

RECURSIVE SortByName(_)
\* sort.Slice(config.Services, ...) by Name
SortByName(services) ==
    IF services = <<>> THEN <<>>
    ELSE Insert(SortByName(SubSeq(services, 1, Len(services) - 1)), services[Len(services)])

\* Validate accepting every service.
ValidateNothing(services) == FALSE

\* Config.Validate: TRUE when it returns an error.
Validate(services) == \E i \in 1..Len(services) : services[i].Image = ""

EmptyMap == [k \in {} |-> <<>>]

\* m[k] = []Service{v}: the key keeps its last service only.
MapAppendOverwrite(m, k, v) ==
    [x \in DOMAIN m \cup {k} |-> IF x = k THEN <<v>> ELSE m[x]]

\* m[k] = append(m[k], v) on a Go map of slices.
MapAppend(m, k, v) ==
    [x \in DOMAIN m \cup {k} |->
        IF x = k THEN (IF k \in DOMAIN m THEN Append(m[k], v) ELSE <<v>>) ELSE m[x]]

\* v, ok := m[k]
Lookup(m, k) ==
    IF k \in DOMAIN m THEN [ok |-> TRUE, val |-> m[k]] ELSE [ok |-> FALSE, val |-> <<>>]

RECURSIVE IndexServicesUnchecked(_, _, _)
\* IndexServices without the compile check.
IndexServicesUnchecked(services, i, m) ==
    IF i > Len(services) THEN [err |-> FALSE, index |-> m]
    ELSE IndexServicesUnchecked(services, i + 1,
                                MapAppend(m, services[i].Image, services[i]))

RECURSIVE IndexServices(_, _, _)
\* The loop of New over conf.Services: index the service, then compile it.
IndexServices(services, i, m) ==
    IF i > Len(services) THEN [err |-> FALSE, index |-> m]
    ELSE LET m2 == MapAppend(m, services[i].Image, services[i]) IN
         IF \E o \in MapOrders(services[i]) : CreateContainerOptions(services[i], o).err
         THEN [err |-> TRUE, index |-> m2]
         ELSE IndexServices(services, i + 1, m2)

\* The zero value of HookRequest.
ZeroHook == [CallbackURL |-> "", RepoName |-> "", Tag |-> ""]

Field(b, k) == IF k \in DOMAIN b.fields THEN b.fields[k] ELSE ""

\* dec.Decode(&hook): fields the document lacks keep their zero value.
Decode(b) ==
    IF ~b.valid THEN [err |-> TRUE, hook |-> ZeroHook]
    ELSE [err |-> FALSE,
          hook |-> [CallbackURL |-> Field(b, "callback_url"),
                    RepoName |-> Field(b, "repo_name"),
                    Tag |-> Field(b, "tag")]]

\* The fallback tried for every tag.
AnyTagIsOptional(tag) == TRUE

\* The fallback rule of the lookup: only the tag "latest" is optional.
TagIsOptional(tag) == tag = "latest"

\* The lookup joining the services of repository:tag and, for the optional
\* tag, those of the bare repository.
ResolveBoth(m, h) ==
    LET image == h.RepoName \o ":" \o h.Tag
        exact == Lookup(m, image)
        bare == IF TagIsOptional(h.Tag) THEN Lookup(m, h.RepoName) ELSE Lookup(EmptyMap, image)
    IN  [ok |-> exact.ok \/ bare.ok, val |-> exact.val \o bare.val]

\* foundServices, ok for the event's image.
Resolve(m, h) ==
    LET image == h.RepoName \o ":" \o h.Tag
        exact == Lookup(m, image)
    IN  IF ~exact.ok /\ TagIsOptional(h.Tag) THEN Lookup(m, h.RepoName) ELSE exact

\* sliceContains true of every container that has a name.
sliceContainsAny(slice, in) == slice # <<>>

sliceContains(slice, in) == \E i \in 1..Len(slice) : slice[i] = in

RECURSIVE FindFrom(_, _, _)
FindFrom(list, i, name) ==
    IF i > Len(list) THEN ""
    ELSE IF sliceContains(list[i].Names, "/" \o name) THEN list[i].ID
    ELSE FindFrom(list, i + 1, name)

\* The search loop of ServeHTTP: id of the first listed container of that name.
FindExisting(list, name) == FindFrom(list, 1, name)

(***************************************************************************)
(* Records of what an event did, in order                                  *)
(***************************************************************************)
\* An engine call or the callback GET: svc is the loop position (0 outside it).
\* res is what the handler keeps of the result: the id found in the listing, c.ID.
Call(op, arg, ok, res, svc) ==
    [op |-> op, arg |-> arg, ok |-> ok, res |-> res, code |-> 0, svc |-> svc]

\* resp.WriteHeader(code) / http.Error(resp, _, code)
Respond(code) ==
    [op |-> "respond", arg |-> <<>>, ok |-> TRUE, res |-> "", code |-> code, svc |-> 0]

Log(r, entries) == calls' = [calls EXCEPT ![r] = calls[r] \o entries]
Goto(r, label) == pc' = [pc EXCEPT ![r] = label]

(***************************************************************************)
(* The engine behind the client: what a successful call does               *)
(***************************************************************************)
SetState(list, cid, state) ==
    [i \in 1..Len(list) |->
        IF list[i].ID = cid THEN [list[i] EXCEPT !.State = state] ELSE list[i]]

RECURSIVE Without(_, _)
Without(list, cid) ==
    IF list = <<>> THEN <<>>
    ELSE IF Head(list).ID = cid THEN Without(Tail(list), cid)
    ELSE <<Head(list)>> \o Without(Tail(list), cid)

\* The engine after creating the container cid under that name: an ID names
\* one container, so the new one takes the place of one that had the ID.
Created(list, cid, name) == <<Ctr(cid, <<"/" \o name>>, "created")>> \o Without(list, cid)

(***************************************************************************)
(* Init and New                                                            *)
(***************************************************************************)
\* The values ServeHTTP's locals have while no event is handled.
Idle ==
    /\ events = 0
    /\ pc = [r \in Reqs |-> "idle"]
    /\ body = [r \in Reqs |-> Garbage]
    /\ hook = [r \in Reqs |-> ZeroHook]
    /\ foundServices = [r \in Reqs |-> <<>>]
    /\ idx = [r \in Reqs |-> 0]
    /\ containers = [r \in Reqs |-> <<>>]
    /\ id = [r \in Reqs |-> ""]
    /\ cID = [r \in Reqs |-> ""]
    /\ calls = [r \in Reqs |-> <<>>]

Init ==
    /\ \E in \in Inputs : conf = in[1] /\ origin = in[2]
    /\ idPolicy \in IDPolicies
    /\ compileIn = Svc("", "", <<>>)
    /\ compiled = <<>>
    /\ phase = IF origin = "LoadConfig" THEN "load" ELSE "init"
    /\ imageToService = EmptyMap
    /\ engine \in EngineStates
    /\ created = 0
    /\ Idle

\* The end of config.LoadConfig: the services are sorted by name and validated.
LoadConfig ==
    /\ phase = "load"
    /\ LET sorted == SortByName(conf) IN
       IF Validate(sorted)
       THEN /\ phase' = "failed"
            /\ UNCHANGED conf
       ELSE /\ phase' = "init"
            /\ conf' = sorted
    /\ UNCHANGED <<origin, idPolicy, compileIn, compiled, imageToService, engine, created, events,
                   pc, body, hook, foundServices, idx, containers, id, cID, calls>>

\* handler.New: clientOk is the outcome of NewClientFromEnv and Ping.
New(clientOk) ==
    /\ phase = "init"
    /\ LET res == IndexServices(conf, 1, EmptyMap) IN
       IF res.err \/ ~clientOk
       THEN /\ phase' = "failed"
            /\ UNCHANGED imageToService
       ELSE /\ phase' = "serving"
            /\ imageToService' = res.index
    /\ UNCHANGED <<conf, origin, idPolicy, compileIn, compiled, engine, created, events,
                   pc, body, hook, foundServices, idx, containers, id, cID, calls>>

(***************************************************************************)
(* ServeHTTP, one action per blocking call                                 *)
(***************************************************************************)
\* BadRequest without its return: the handler goes on with the zero HookRequest.
BadRequestFallsThrough(r) ==
    /\ Log(r, <<Respond(StatusBadRequest)>>)
    /\ Goto(r, "pull")

\* The decode error branch: http.Error(resp, "invalid request", 400); return.
BadRequest(r) ==
    /\ Log(r, <<Respond(StatusBadRequest)>>)
    /\ Goto(r, "done")

\* NotInConfig without its return: the handler goes on to the pull.
NotInConfigFallsThrough(r) ==
    /\ Goto(r, "pull")
    /\ UNCHANGED calls

\* The !ok branch: the image is not in the config; answer 200, then call back.
NotInConfig(r) ==
    /\ Log(r, <<Respond(StatusOK)>>)
    /\ Goto(r, "callback")

\* http.Error(resp, "internal error", 500); return, after the calls in entries.
Abort(r, entries) ==
    /\ Log(r, entries \o <<Respond(StatusInternalServerError)>>)
    /\ Goto(r, "done")

\* LoopAt returning after the 200 without the callback.
LoopAtSkipsCallback(r, i, entries) ==
    /\ idx' = [idx EXCEPT ![r] = i]
    /\ IF i > Len(foundServices[r])
       THEN /\ Log(r, entries \o <<Respond(StatusOK)>>)
            /\ Goto(r, "done")
       ELSE /\ Log(r, entries)
            /\ Goto(r, "list")

\* The head of the loop over foundServices at position i; past the last
\* service the handler writes the 200 and goes on to the callback.
LoopAt(r, i, entries) ==
    /\ idx' = [idx EXCEPT ![r] = i]
    /\ IF i > Len(foundServices[r])
       THEN /\ Log(r, entries \o <<Respond(StatusOK)>>)
            /\ Goto(r, "callback")
       ELSE /\ Log(r, entries)
            /\ Goto(r, "list")

\* ServeHTTP storing the services found by the fallback under the key
\* repository:tag.
ServeHTTPCaching(r, b) ==
    /\ phase = "serving"
    /\ pc[r] = "idle"
    /\ events < MaxEvents
    /\ events' = events + 1
    /\ body' = [body EXCEPT ![r] = b]
    /\ LET dec == Decode(b) IN
       IF dec.err
       THEN /\ BadRequest(r)
            /\ UNCHANGED <<hook, foundServices, imageToService>>
       ELSE LET res == Resolve(imageToService, dec.hook) IN
            /\ hook' = [hook EXCEPT ![r] = dec.hook]
            /\ IF ~res.ok
               THEN /\ NotInConfig(r)
                    /\ UNCHANGED <<foundServices, imageToService>>
               ELSE /\ foundServices' = [foundServices EXCEPT ![r] = res.val]
                    /\ imageToService' =
                           [k \in DOMAIN imageToService \cup {dec.hook.RepoName \o ":" \o dec.hook.Tag} |->
                               IF k \in DOMAIN imageToService THEN imageToService[k] ELSE res.val]
                    /\ Goto(r, "pull")
                    /\ UNCHANGED calls
    /\ UNCHANGED <<conf, origin, idPolicy, compileIn, compiled, phase, engine, created, idx, containers, id, cID>>

\* Entry of ServeHTTP up to its first outbound call: decode and resolve.
ServeHTTP(r, b) ==
    /\ phase = "serving"
    /\ pc[r] = "idle"
    /\ events < MaxEvents
    /\ events' = events + 1
    /\ body' = [body EXCEPT ![r] = b]
    /\ LET dec == Decode(b) IN
       IF dec.err
       THEN /\ BadRequest(r)
            /\ UNCHANGED <<hook, foundServices>>
       ELSE LET res == Resolve(imageToService, dec.hook) IN
            /\ hook' = [hook EXCEPT ![r] = dec.hook]
            /\ IF ~res.ok
               THEN /\ NotInConfig(r)
                    /\ UNCHANGED foundServices
               ELSE /\ foundServices' = [foundServices EXCEPT ![r] = res.val]
                    /\ Goto(r, "pull")
                    /\ UNCHANGED calls
    /\ UNCHANGED <<conf, origin, idPolicy, compileIn, compiled, phase, imageToService, engine, created, idx, containers, id, cID>>

\* PullImage with the pull error only logged.
PullSoldiersOn(r, ok) ==
    /\ pc[r] = "pull"
    /\ LoopAt(r, 1, <<Call("pull", <<hook[r].RepoName, hook[r].Tag>>, ok, "", 0)>>)
    /\ UNCHANGED <<conf, origin, idPolicy, compileIn, compiled, phase, imageToService, engine, created, events,
                   body, hook, foundServices, containers, id, cID>>

\* h.client.PullImage
PullImage(r, ok) ==
    /\ pc[r] = "pull"
    /\ LET call == Call("pull", <<hook[r].RepoName, hook[r].Tag>>, ok, "", 0) IN
       IF ~ok
       THEN Abort(r, <<call>>) /\ UNCHANGED idx
       ELSE LoopAt(r, 1, <<call>>)
    /\ UNCHANGED <<conf, origin, idPolicy, compileIn, compiled, phase, imageToService, engine, created, events,
                   body, hook, foundServices, containers, id, cID>>

\* AfterSearch without the test for an empty id.
AlwaysStop(found) == "stop"

\* What follows the search for an existing container.
AfterSearch(found) == IF found # "" THEN "stop" ELSE "create"

\* ListContainers treating a list error like a create error.
ListContainersAborts(r, ok) ==
    /\ pc[r] = "list"
    /\ LET service == foundServices[r][idx[r]]
           listing == IF ok THEN engine ELSE <<>>
           found == FindExisting(listing, service.Name)
       IN  /\ containers' = [containers EXCEPT ![r] = listing]
           /\ id' = [id EXCEPT ![r] = found]
           /\ IF ~ok
              THEN Abort(r, <<Call("list", <<"all">>, ok, found, idx[r])>>)
              ELSE /\ Log(r, <<Call("list", <<"all">>, ok, found, idx[r])>>)
                   /\ Goto(r, AfterSearch(found))
    /\ UNCHANGED <<conf, origin, idPolicy, compileIn, compiled, phase, imageToService, engine, created, events,
                   body, hook, foundServices, idx, cID>>

\* ListContainers asking the engine for the first service only and using
\* that listing again for the next ones.
ListContainersCached(r, ok) ==
    /\ pc[r] = "list"
    /\ LET service == foundServices[r][idx[r]]
           listing == IF ~ok THEN <<>> ELSE IF idx[r] > 1 THEN containers[r] ELSE engine
           found == FindExisting(listing, service.Name)
       IN  /\ containers' = [containers EXCEPT ![r] = listing]
           /\ id' = [id EXCEPT ![r] = found]
           /\ Log(r, <<Call("list", <<"all">>, ok, found, idx[r])>>)
           /\ Goto(r, AfterSearch(found))
    /\ UNCHANGED <<conf, origin, idPolicy, compileIn, compiled, phase, imageToService, engine, created, events,
                   body, hook, foundServices, idx, cID>>

\* ListContainers waiting while another handler is replacing the container
\* of the same service.
ListContainersLocked(r, ok) ==
    /\ pc[r] = "list"
    /\ \A q \in Reqs \ {r} :
           pc[q] \in {"stop", "remove", "create", "start"} =>
               foundServices[q][idx[q]].Name # foundServices[r][idx[r]].Name
    /\ LET service == foundServices[r][idx[r]]
           listing == IF ok THEN engine ELSE <<>>
           found == FindExisting(listing, service.Name)
       IN  /\ containers' = [containers EXCEPT ![r] = listing]
           /\ id' = [id EXCEPT ![r] = found]
           /\ Log(r, <<Call("list", <<"all">>, ok, found, idx[r])>>)
           /\ Goto(r, AfterSearch(found))
    /\ UNCHANGED <<conf, origin, idPolicy, compileIn, compiled, phase, imageToService, engine, created, events,
                   body, hook, foundServices, idx, cID>>

\* h.client.ListContainers and the search of the listing
ListContainers(r, ok) ==
    /\ pc[r] = "list"
    /\ LET service == foundServices[r][idx[r]]
           listing == IF ok THEN engine ELSE <<>>
           found == FindExisting(listing, service.Name)
       IN  /\ containers' = [containers EXCEPT ![r] = listing]
           /\ id' = [id EXCEPT ![r] = found]
           /\ Log(r, <<Call("list", <<"all">>, ok, found, idx[r])>>)
           /\ Goto(r, AfterSearch(found))
    /\ UNCHANGED <<conf, origin, idPolicy, compileIn, compiled, phase, imageToService, engine, created, events,
                   body, hook, foundServices, idx, cID>>

\* StopContainer treating a stop error like a create error.
StopAborts(r, ok) ==
    /\ pc[r] = "stop"
    /\ IF ~ok
       THEN /\ Abort(r, <<Call("stop", <<id[r]>>, ok, "", idx[r])>>)
            /\ UNCHANGED engine
       ELSE /\ Log(r, <<Call("stop", <<id[r]>>, ok, "", idx[r])>>)
            /\ engine' = SetState(engine, id[r], "exited")
            /\ Goto(r, "remove")
    /\ UNCHANGED <<conf, origin, idPolicy, compileIn, compiled, phase, imageToService, created, events,
                   body, hook, foundServices, idx, containers, id, cID>>

\* StopContainer without the remove that follows it.
StopSkipsRemove(r, ok) ==
    /\ pc[r] = "stop"
    /\ Log(r, <<Call("stop", <<id[r]>>, ok, "", idx[r])>>)
    /\ engine' = IF ok THEN SetState(engine, id[r], "exited") ELSE engine
    /\ Goto(r, "create")
    /\ UNCHANGED <<conf, origin, idPolicy, compileIn, compiled, phase, imageToService, created, events,
                   body, hook, foundServices, idx, containers, id, cID>>

\* h.client.StopContainerWithContext
StopContainer(r, ok) ==
    /\ pc[r] = "stop"
    /\ Log(r, <<Call("stop", <<id[r]>>, ok, "", idx[r])>>)
    /\ engine' = IF ok THEN SetState(engine, id[r], "exited") ELSE engine
    /\ Goto(r, "remove")
    /\ UNCHANGED <<conf, origin, idPolicy, compileIn, compiled, phase, imageToService, created, events,
                   body, hook, foundServices, idx, containers, id, cID>>

\* RemoveContainer treating a remove error like a create error.
RemoveAborts(r, ok) ==
    /\ pc[r] = "remove"
    /\ IF ~ok
       THEN /\ Abort(r, <<Call("remove", <<id[r]>>, ok, "", idx[r])>>)
            /\ UNCHANGED engine
       ELSE /\ Log(r, <<Call("remove", <<id[r]>>, ok, "", idx[r])>>)
            /\ engine' = Without(engine, id[r])
            /\ Goto(r, "create")
    /\ UNCHANGED <<conf, origin, idPolicy, compileIn, compiled, phase, imageToService, created, events,
                   body, hook, foundServices, idx, containers, id, cID>>

\* h.client.RemoveContainer
RemoveContainer(r, ok) ==
    /\ pc[r] = "remove"
    /\ Log(r, <<Call("remove", <<id[r]>>, ok, "", idx[r])>>)
    /\ engine' = IF ok THEN Without(engine, id[r]) ELSE engine
    /\ Goto(r, "create")
    /\ UNCHANGED <<conf, origin, idPolicy, compileIn, compiled, phase, imageToService, created, events,
                   body, hook, foundServices, idx, containers, id, cID>>

\* CreateContainer with the create error only logged.
CreateSoldiersOn(r, ok) ==
    /\ pc[r] = "create"
    /\ \E o \in MapOrders(foundServices[r][idx[r]]) :
       LET cOpts == CreateContainerOptions(foundServices[r][idx[r]], o)
           newID == CreateID(idPolicy, created + 1)
           call == Call("create", <<cOpts.Name, cOpts.Image>>, ok,
                        IF ok THEN newID ELSE "", idx[r])
       IN  /\ Log(r, <<call>>)
           /\ Goto(r, "start")
           /\ IF ~ok
              THEN /\ cID' = [cID EXCEPT ![r] = ""]
                   /\ UNCHANGED <<engine, created>>
              ELSE /\ engine' = Created(engine, newID, cOpts.Name)
                   /\ created' = created + 1
                   /\ cID' = [cID EXCEPT ![r] = newID]
    /\ UNCHANGED <<conf, origin, idPolicy, compileIn, compiled, phase, imageToService, events,
                   body, hook, foundServices, idx, containers, id>>

\* service.CreateContainerOptions and h.client.CreateContainer
CreateContainer(r, ok) ==
    /\ pc[r] = "create"
    /\ \E o \in MapOrders(foundServices[r][idx[r]]) :
       LET cOpts == CreateContainerOptions(foundServices[r][idx[r]], o)
           newID == CreateID(idPolicy, created + 1)
           call == Call("create", <<cOpts.Name, cOpts.Image>>, ok,
                        IF ok THEN newID ELSE "", idx[r])
       IN  IF ~ok
           THEN /\ Abort(r, <<call>>)
                /\ UNCHANGED <<engine, created, cID>>
           ELSE /\ Log(r, <<call>>)
                /\ engine' = Created(engine, newID, cOpts.Name)
                /\ created' = created + 1
                /\ cID' = [cID EXCEPT ![r] = newID]
                /\ Goto(r, "start")
    /\ UNCHANGED <<conf, origin, idPolicy, compileIn, compiled, phase, imageToService, events,
                   body, hook, foundServices, idx, containers, id>>

\* StartContainer with the start error only logged.
StartSoldiersOn(r, ok) ==
    /\ pc[r] = "start"
    /\ engine' = IF ok THEN SetState(engine, cID[r], "running") ELSE engine
    /\ LoopAt(r, idx[r] + 1, <<Call("start", <<cID[r]>>, ok, "", idx[r])>>)
    /\ UNCHANGED <<conf, origin, idPolicy, compileIn, compiled, phase, imageToService, created, events,
                   body, hook, foundServices, containers, id, cID>>

\* h.client.StartContainerWithContext
StartContainer(r, ok) ==
    /\ pc[r] = "start"
    /\ LET call == Call("start", <<cID[r]>>, ok, "", idx[r]) IN
       IF ~ok
       THEN /\ Abort(r, <<call>>)
            /\ UNCHANGED <<engine, idx>>
       ELSE /\ engine' = SetState(engine, cID[r], "running")
            /\ LoopAt(r, idx[r] + 1, <<call>>)
    /\ UNCHANGED <<conf, origin, idPolicy, compileIn, compiled, phase, imageToService, created, events,
                   body, hook, foundServices, containers, id, cID>>

\* http.Get(hook.CallbackURL)
Callback(r, ok) ==
    /\ pc[r] = "callback"
    /\ Log(r, <<Call("callback", <<hook[r].CallbackURL>>, ok, "", 0)>>)
    /\ Goto(r, "done")
    /\ UNCHANGED <<conf, origin, idPolicy, compileIn, compiled, phase, imageToService, engine, created, events,
                   body, hook, foundServices, idx, containers, id, cID>>

\* The calls that have failed so far, over all events.
Failures ==
    LET RECURSIVE Count(_, _)
        Count(c, i) == IF i > Len(c) THEN 0
                       ELSE (IF c[i].op # "respond" /\ ~c[i].ok THEN 1 ELSE 0) + Count(c, i + 1)
        RECURSIVE Sum(_)
        Sum(S) == IF S = {} THEN 0
                  ELSE LET r == CHOOSE x \in S : TRUE IN Count(calls[r], 1) + Sum(S \ {r})
    IN  Sum(Reqs)

\* The outcomes of an outbound call: it can fail while fewer than MaxFailures
\* calls have failed.
Outcomes == IF Failures < MaxFailures THEN BOOLEAN ELSE {TRUE}

\* Events arrive at any time and each is handled by a goroutine of its own
\* (net/http): the handlers' calls interleave. Each request of Reqs is one
\* such goroutine, followed from its arrival to its return.
Next ==
    \/ LoadConfig
    \/ \E clientOk \in BOOLEAN : New(clientOk)
    \/ \E r \in Reqs, b \in Bodies : ServeHTTP(r, b)
    \/ \E r \in Reqs, ok \in Outcomes : PullImage(r, ok)
    \/ \E r \in Reqs, ok \in Outcomes : ListContainers(r, ok)
    \/ \E r \in Reqs, ok \in Outcomes : StopContainer(r, ok)
    \/ \E r \in Reqs, ok \in Outcomes : RemoveContainer(r, ok)
    \/ \E r \in Reqs, ok \in Outcomes : CreateContainer(r, ok)
    \/ \E r \in Reqs, ok \in Outcomes : StartContainer(r, ok)
    \/ \E r \in Reqs, ok \in Outcomes : Callback(r, ok)

Spec == Init /\ [][Next]_vars

(***************************************************************************)
(* Compile on its own: one service, compiled again and again               *)
(***************************************************************************)
InitCompile ==
    /\ compileIn \in Services
    /\ compiled = <<>>
    /\ conf = <<>>
    /\ origin = "literal"
    /\ idPolicy = "unused"
    /\ phase = "compile"
    /\ imageToService = EmptyMap
    /\ engine = <<>>
    /\ created = 0
    /\ Idle

\* One call of service.CreateContainerOptions()
Compile(o) ==
    /\ phase = "compile"
    /\ Len(compiled) < MaxCompiles
    /\ compiled' = Append(compiled, CreateContainerOptions(compileIn, o))
    /\ UNCHANGED <<conf, origin, idPolicy, compileIn, phase, imageToService, engine, created, events,
                   pc, body, hook, foundServices, idx, containers, id, cID, calls>>

NextCompile == \E o \in MapOrders(compileIn) : Compile(o)

SpecCompile == InitCompile /\ [][NextCompile]_vars

(***************************************************************************)
(* Properties of ServeHTTP                                                 *)
(***************************************************************************)
EngineOps == {"pull", "list", "stop", "remove", "create", "start"}

Positions(r) == 1..Len(calls[r])

\* The event's fields as the body carries them.
RepoOf(r) == Field(body[r], "repo_name")
TagOf(r) == Field(body[r], "tag")
URLOf(r) == Field(body[r], "callback_url")

\* The listing has a container one of whose names is "/" + name.
Named(list, name) ==
    \E i \in 1..Len(list) : \E k \in 1..Len(list[i].Names) : list[i].Names[k] = "/" \o name

\* The id of the first such container of the listing.
FirstNamed(list, name) ==
    LET hits == {i \in 1..Len(list) :
                    \E k \in 1..Len(list[i].Names) : list[i].Names[k] = "/" \o name}
    IN  list[CHOOSE i \in hits : \A j \in hits : i <= j].ID

\* An event for one service S whose container was listed and whose calls all
\* succeeded.
ReplacedOne(r) ==
    /\ pc[r] = "done"
    /\ body[r].valid
    /\ Len(foundServices[r]) = 1
    /\ Named(containers[r], foundServices[r][1].Name)
    /\ \A i \in Positions(r) : calls[r][i].ok

\* C1: an event resolving to one service S whose container the engine lists,
\* every call succeeding, makes exactly the calls pull(repository, tag), list
\* (all), stop and remove of the found container, create for S, start of the
\* created container, writes 200 and GETs the callback URL, in this order.
C1_ReplaceSequence ==
    \A r \in Reqs :
        ReplacedOne(r) =>
            LET S == foundServices[r][1]
                old == FirstNamed(containers[r], S.Name)
                c == calls[r]
            IN  /\ Len(c) = 8
                /\ c[1] = Call("pull", <<RepoOf(r), TagOf(r)>>, TRUE, "", 0)
                /\ c[2] = Call("list", <<"all">>, TRUE, old, 1)
                /\ c[3] = Call("stop", <<old>>, TRUE, "", 1)
                /\ c[4] = Call("remove", <<old>>, TRUE, "", 1)
                /\ c[5] = Call("create", <<S.Name, S.Image>>, TRUE, c[5].res, 1)
                /\ c[5].res # ""
                /\ c[6] = Call("start", <<c[5].res>>, TRUE, "", 1)
                /\ c[7] = Respond(StatusOK)
                /\ c[8] = Call("callback", <<URLOf(r)>>, TRUE, "", 0)

C1_Witness == \E r \in Reqs : ReplacedOne(r) /\ Len(calls[r]) = 8

\* Neither repository:tag nor, for the tag "latest", the bare repository is a
\* key of the Image Index.
Unmatched(r) ==
    /\ (RepoOf(r) \o ":" \o TagOf(r)) \notin DOMAIN imageToService
    /\ TagOf(r) = "latest" => RepoOf(r) \notin DOMAIN imageToService

\* C2: a well-formed event whose image matches no key of the Image Index is
\* answered 200, followed by exactly one callback GET, and makes no engine call.
C2_UnmatchedNoop ==
    \A r \in Reqs :
        (pc[r] # "idle" /\ body[r].valid /\ Unmatched(r)) =>
            /\ \A i \in Positions(r) : calls[r][i].op \notin EngineOps
            /\ pc[r] \in {"callback", "done"}
            /\ Len(calls[r]) >= 1 /\ calls[r][1] = Respond(StatusOK)
            /\ pc[r] = "callback" => Len(calls[r]) = 1
            /\ pc[r] = "done" =>
                   /\ Len(calls[r]) = 2
                   /\ calls[r][2].op = "callback"
                   /\ calls[r][2].arg = <<URLOf(r)>>

C2_Witness ==
    \E r \in Reqs : pc[r] = "done" /\ body[r].valid /\ Unmatched(r) /\ Len(calls[r]) = 2

\* C3: a failed pull ends the event: the pull is followed by the 500 response
\* and by nothing else, so no callback and no list, stop, remove, create or start.
C3_PullFailureAborts ==
    \A r \in Reqs : \A i \in Positions(r) :
        (calls[r][i].op = "pull" /\ ~calls[r][i].ok) =>
            /\ pc[r] = "done"
            /\ i = 1
            /\ Len(calls[r]) = 2
            /\ calls[r][2] = Respond(StatusInternalServerError)

C3_Witness ==
    \E r \in Reqs :
        /\ pc[r] = "done"
        /\ Len(foundServices[r]) >= 1
        /\ calls[r][1].op = "pull" /\ ~calls[r][1].ok

\* C4: a failed create ends the event at once: the 500 response follows it and
\* nothing else does; there is no callback, no start for that service, and no
\* engine call for a later matched service.
C4_CreateFailureAborts ==
    \A r \in Reqs : \A i \in Positions(r) :
        (calls[r][i].op = "create" /\ ~calls[r][i].ok) =>
            /\ pc[r] = "done"
            /\ Len(calls[r]) = i + 1
            /\ calls[r][i + 1] = Respond(StatusInternalServerError)
            /\ \A j \in Positions(r) :
                   /\ calls[r][j].op # "callback"
                   /\ ~(calls[r][j].op = "start" /\ calls[r][j].svc = calls[r][i].svc)
                   /\ calls[r][j].svc <= calls[r][i].svc

C4_Witness ==
    \E r \in Reqs : \E i \in Positions(r) :
        /\ pc[r] = "done"
        /\ calls[r][i].op = "create" /\ ~calls[r][i].ok
        /\ calls[r][i].svc < Len(foundServices[r])

\* C5: a failed start ends the event at once: the 500 response follows it and
\* nothing else does; there is no callback and no engine call for a later
\* matched service.
C5_StartFailureAborts ==
    \A r \in Reqs : \A i \in Positions(r) :
        (calls[r][i].op = "start" /\ ~calls[r][i].ok) =>
            /\ pc[r] = "done"
            /\ Len(calls[r]) = i + 1
            /\ calls[r][i + 1] = Respond(StatusInternalServerError)
            /\ \A j \in Positions(r) :
                   /\ calls[r][j].op # "callback"
                   /\ calls[r][j].svc <= calls[r][i].svc

C5_Witness ==
    \E r \in Reqs : \E i \in Positions(r) :
        /\ pc[r] = "done"
        /\ calls[r][i].op = "start" /\ ~calls[r][i].ok
        /\ calls[r][i].svc < Len(foundServices[r])

\* The service the loop is at.
Current(r) == foundServices[r][idx[r]]

\* Create and start have succeeded for every matched service.
AllStarted(r) ==
    /\ Len(foundServices[r]) >= 1
    /\ \A k \in 1..Len(foundServices[r]) :
           \E i \in Positions(r) :
               calls[r][i].op = "start" /\ calls[r][i].ok /\ calls[r][i].svc = k

\* C6: a stop, failed or not, is followed by the remove of the same id, and a
\* remove, failed or not, by the create for the same service; when create and
\* start succeed for all matched services the event ends with the 200 response
\* and the callback, whatever stop and remove returned.
C6_TeardownNeverAborts ==
    \A r \in Reqs :
        /\ \A i \in Positions(r) :
               /\ calls[r][i].op = "stop" =>
                      IF i = Len(calls[r]) THEN pc[r] = "remove" /\ id[r] = calls[r][i].arg[1]
                      ELSE /\ calls[r][i + 1].op = "remove"
                           /\ calls[r][i + 1].arg = calls[r][i].arg
                           /\ calls[r][i + 1].svc = calls[r][i].svc
               /\ calls[r][i].op = "remove" =>
                      IF i = Len(calls[r]) THEN pc[r] = "create" /\ idx[r] = calls[r][i].svc
                      ELSE /\ calls[r][i + 1].op = "create"
                           /\ calls[r][i + 1].svc = calls[r][i].svc
        /\ (pc[r] = "done" /\ AllStarted(r)) =>
               /\ calls[r][Len(calls[r]) - 1] = Respond(StatusOK)
               /\ calls[r][Len(calls[r])].op = "callback"

C6_Witness ==
    \E r \in Reqs : \E i, j \in Positions(r) :
        /\ pc[r] = "done" /\ AllStarted(r)
        /\ calls[r][i].op = "stop" /\ ~calls[r][i].ok
        /\ calls[r][j].op = "remove" /\ ~calls[r][j].ok
        /\ calls[r][Len(calls[r])].op = "callback"

\* An event for one service S that has no listed container, every call succeeding.
CreatedOne(r) ==
    /\ pc[r] = "done"
    /\ body[r].valid
    /\ Len(foundServices[r]) = 1
    /\ ~Named(containers[r], foundServices[r][1].Name)
    /\ \A i \in Positions(r) : calls[r][i].ok

\* C7: when the listing has no container named "/" + service name, the create
\* follows the list directly: stop and remove are called only after a listing
\* that has such a container, with its non-empty id; an event for one service
\* without a listed container makes the calls pull, list, create, start, 200,
\* callback.
C7_NoContainerNoTeardown ==
    \A r \in Reqs :
        /\ (calls[r] # <<>> /\ calls[r][Len(calls[r])].op = "list") =>
               pc[r] = IF Named(containers[r], Current(r).Name) THEN "stop" ELSE "create"
        /\ pc[r] \in {"stop", "remove"} =>
               /\ Named(containers[r], Current(r).Name)
               /\ id[r] = FirstNamed(containers[r], Current(r).Name)
               /\ id[r] # ""
        /\ \A i \in Positions(r) :
               /\ calls[r][i].op = "stop" =>
                      /\ calls[r][i].arg # <<"">>
                      /\ calls[r][i - 1].op = "list"
                      /\ calls[r][i - 1].svc = calls[r][i].svc
               /\ calls[r][i].op = "remove" =>
                      /\ calls[r][i].arg # <<"">>
                      /\ calls[r][i - 1].op = "stop"
        /\ CreatedOne(r) =>
               /\ [i \in Positions(r) |-> calls[r][i].op]
                      = <<"pull", "list", "create", "start", "respond", "callback">>
               /\ calls[r][5] = Respond(StatusOK)
               /\ calls[r][4].arg = <<calls[r][3].res>>

C7_Witness ==
    \E r \in Reqs : CreatedOne(r) /\ containers[r] # <<>> /\ Len(calls[r]) = 6

CountOp(r, op) == Cardinality({i \in Positions(r) : calls[r][i].op = op})

\* C8: an event answered 200 issues the callback GET to its callback URL
\* exactly once, after the 200 was written and never before; the response
\* stays the single 200 whether the callback succeeds or fails.
C8_CallbackOnceAfterResponse ==
    \A r \in Reqs :
        /\ \A i \in Positions(r) :
               calls[r][i].op = "callback" =>
                   /\ i > 1 /\ calls[r][i - 1] = Respond(StatusOK)
                   /\ calls[r][i].arg = <<URLOf(r)>>
                   /\ pc[r] = "done"
        /\ CountOp(r, "callback") <= 1
        /\ CountOp(r, "respond") <= 1
        /\ (pc[r] = "done" /\ \E i \in Positions(r) : calls[r][i] = Respond(StatusOK)) =>
               CountOp(r, "callback") = 1

C8_Witness ==
    \E r \in Reqs :
        /\ pc[r] = "done" /\ AllStarted(r)
        /\ calls[r][Len(calls[r]) - 1] = Respond(StatusOK)
        /\ calls[r][Len(calls[r])].op = "callback" /\ ~calls[r][Len(calls[r])].ok

\* C9: the services of an event are those under the key repository:tag; when
\* that key is absent and the tag is "latest" they are those under the bare
\* repository; when that key is absent and the tag is another one the event
\* is unmatched, whether or not the bare repository is a key.
C9_LatestFallback ==
    \A r \in Reqs :
        (pc[r] # "idle" /\ body[r].valid) =>
            LET key == RepoOf(r) \o ":" \o TagOf(r)
                m == imageToService
            IN  /\ key \in DOMAIN m => foundServices[r] = m[key]
                /\ (key \notin DOMAIN m /\ TagOf(r) = "latest" /\ RepoOf(r) \in DOMAIN m) =>
                       /\ foundServices[r] = m[RepoOf(r)]
                       /\ \A k \in 1..Len(foundServices[r]) :
                              foundServices[r][k].Image = RepoOf(r)
                       /\ pc[r] = "pull" \/ calls[r][1].op = "pull"
                /\ (key \notin DOMAIN m /\ TagOf(r) # "latest") =>
                       /\ foundServices[r] = <<>>
                       /\ calls[r][1] = Respond(StatusOK)

C9_Witness ==
    \E r \in Reqs :
        /\ pc[r] = "pull" /\ body[r].valid
        /\ TagOf(r) = "latest"
        /\ (RepoOf(r) \o ":" \o TagOf(r)) \notin DOMAIN imageToService
        /\ Len(foundServices[r]) = 2
        /\ foundServices[r][1].Image = RepoOf(r)

\* C10: a body that does not decode is answered 400 and nothing else happens:
\* no services are resolved, no engine call is made and no callback is issued.
C10_MalformedBody ==
    \A r \in Reqs :
        (pc[r] # "idle" /\ ~body[r].valid) =>
            /\ pc[r] = "done"
            /\ calls[r] = <<Respond(StatusBadRequest)>>
            /\ foundServices[r] = <<>>

C10_Witness ==
    \E r \in Reqs : pc[r] = "done" /\ ~body[r].valid /\ Len(calls[r]) = 1

\* The codes written to the response, in order.
Codes(r) ==
    LET RECURSIVE Pick(_)
        Pick(i) == IF i > Len(calls[r]) THEN <<>>
                   ELSE IF calls[r][i].op = "respond"
                        THEN <<calls[r][i].code>> \o Pick(i + 1)
                        ELSE Pick(i + 1)
    IN  Pick(1)

\* A call with one of these operations has failed.
Failed(r, ops) == \E i \in Positions(r) : calls[r][i].op \in ops /\ ~calls[r][i].ok

\* C11: a finished event has written exactly one status: 400 exactly when the
\* body is malformed; 500 exactly when the body is well-formed, the image is
\* matched and the pull, a create or a start failed; 200 in every other case,
\* among them the unmatched event and the failures of list, stop and remove.
C11_OneStatus ==
    \A r \in Reqs :
        /\ Len(Codes(r)) <= 1
        /\ pc[r] = "done" =>
               /\ Len(Codes(r)) = 1
               /\ LET code == Codes(r)[1]
                      bad == ~body[r].valid
                      broken == /\ body[r].valid
                                /\ ~Unmatched(r)
                                /\ Failed(r, {"pull", "create", "start"})
                  IN  /\ code = StatusBadRequest <=> bad
                      /\ code = StatusInternalServerError <=> broken
                      /\ code = StatusOK <=> (~bad /\ ~broken)

C11_Witness ==
    \E r \in Reqs :
        /\ pc[r] = "done"
        /\ Codes(r) = <<StatusOK>>
        /\ Failed(r, {"list"}) /\ Failed(r, {"remove"})

\* The new container of the matched service at position j: created and started
\* by this event and still running in the engine under the service's name.
Renewed(r, j) ==
    \E p, q \in Positions(r) :
        /\ p < q
        /\ calls[r][p].op = "create" /\ calls[r][p].ok /\ calls[r][p].svc = j
        /\ calls[r][q].op = "start" /\ calls[r][q].ok /\ calls[r][q].svc = j
        /\ calls[r][q].arg = <<calls[r][p].res>>
        /\ \E e \in 1..Len(engine) :
               engine[e] = Ctr(calls[r][p].res, <<"/" \o foundServices[r][j].Name>>, "running")

\* The event has created and started the new container of the service at k.
Restarted(r, k) ==
    \E p, q \in Positions(r) :
        /\ p < q
        /\ calls[r][p].op = "create" /\ calls[r][p].ok /\ calls[r][p].svc = k
        /\ calls[r][q].op = "start" /\ calls[r][q].ok /\ calls[r][q].svc = k
        /\ calls[r][q].arg = <<calls[r][p].res>>

\* No other event has made a call to the engine.
OnlyEvent(r) ==
    \A q \in Reqs \ {r} : \A i \in Positions(q) : calls[q][i].op \notin EngineOps

\* C12: when create or start fails for the matched service at position k, every
\* matched service before k has had its new container created and started by
\* the event, which has issued no stop or remove since that create (no
\* rollback); no call is made for a matched service after k, and the failed
\* call is followed by the 500 only. With no other event at the engine and an
\* engine that answers unused IDs, those new containers are still running.
C12_PartialAbort ==
    \A r \in Reqs : \A i \in Positions(r) :
        (calls[r][i].op \in {"create", "start"} /\ ~calls[r][i].ok) =>
            /\ \A j \in 1..(calls[r][i].svc - 1) :
                   /\ Restarted(r, j)
                   /\ \A p, n \in Positions(r) :
                          (p < n /\ calls[r][p].op = "create" /\ calls[r][p].svc = j) =>
                              ~(calls[r][n].op \in {"stop", "remove"} /\ calls[r][n].svc <= j)
                   /\ (OnlyEvent(r) /\ idPolicy = "unused") => Renewed(r, j)
            /\ \A n \in Positions(r) : calls[r][n].svc <= calls[r][i].svc
            /\ Len(calls[r]) = i + 1 /\ calls[r][i + 1].op = "respond"

C12_Witness ==
    \E r \in Reqs : \E i \in Positions(r) :
        /\ pc[r] = "done"
        /\ calls[r][i].op \in {"create", "start"} /\ ~calls[r][i].ok
        /\ calls[r][i].svc = 2
        /\ Restarted(r, 1)
        /\ Renewed(r, 1)

\* C14: an event pulls at most once; every list, stop, remove, create and
\* start comes after the one pull of the event's repository and tag, which
\* has succeeded, however many services the image has.
C14_PullOnceFirst ==
    \A r \in Reqs :
        /\ CountOp(r, "pull") <= 1
        /\ \A i \in Positions(r) :
               calls[r][i].op \in EngineOps \ {"pull"} =>
                   /\ i > 1
                   /\ calls[r][1] = Call("pull", <<RepoOf(r), TagOf(r)>>, TRUE, "", 0)
        /\ (pc[r] \notin {"idle", "pull"} /\ body[r].valid /\ ~Unmatched(r)) =>
               CountOp(r, "pull") = 1

C14_Witness ==
    \E r \in Reqs :
        /\ pc[r] = "done"
        /\ Len(foundServices[r]) = 2
        /\ AllStarted(r)
        /\ CountOp(r, "pull") = 1

\* The event has removed the previous container of the matched service at k.
Removed(r, k) ==
    \E i \in Positions(r) :
        calls[r][i].op = "remove" /\ calls[r][i].ok /\ calls[r][i].svc = k

\* The event was ended with a 500 by the create or the start of the service at k.
AbortedAt(r, k) ==
    /\ pc[r] = "done"
    /\ Len(calls[r]) >= 2
    /\ calls[r][Len(calls[r])] = Respond(StatusInternalServerError)
    /\ LET last == calls[r][Len(calls[r]) - 1]
       IN  last.op \in {"create", "start"} /\ ~last.ok /\ last.svc = k

\* C13 as stated: in no state is a service's previous container removed while
\* its new container is not yet created and started.
C13_AtomicReplacement ==
    \A r \in Reqs : \A k \in 1..Len(foundServices[r]) :
        Removed(r, k) => Restarted(r, k)

\* C13, amended: the previous container is removed before the new one is
\* created; it is removed without its replacement created and started only
\* while the handler is between the remove and the start of that service, or
\* after the create or start of that service has ended the event with a 500.
\* An event answered 200 has created and started the new container of every
\* matched service.
C13_ReplacementGap ==
    \A r \in Reqs :
        /\ \A k \in 1..Len(foundServices[r]) :
               (Removed(r, k) /\ ~Restarted(r, k)) =>
                   \/ pc[r] \in {"create", "start"} /\ idx[r] = k
                   \/ AbortedAt(r, k)
        /\ (pc[r] \in {"callback", "done"} /\ Codes(r) = <<StatusOK>>) =>
               \A k \in 1..Len(foundServices[r]) : Restarted(r, k)

C13_Witness ==
    \E r \in Reqs : \E k \in 1..Len(foundServices[r]) :
        /\ Removed(r, k) /\ ~Restarted(r, k)
        /\ AbortedAt(r, k)
        /\ \A e \in 1..Len(engine) :
               \A n \in 1..Len(engine[e].Names) :
                   engine[e].Names[n] # "/" \o foundServices[r][k].Name

(***************************************************************************)
(* Properties of compile and of startup                                    *)
(***************************************************************************)
\* The number of separators of a device declaration.
Separators(device) == Cardinality({i \in 1..Len(device) : device[i] = ":"})

HasBadDevice(s) == \E d \in 1..Len(s.Devices) : Separators(s.Devices[d]) # 1

\* C16: compile is deterministic: for a valid Service, any two calls on the
\* same Service return the same options, the order of Env and of Ulimits
\* included.
C16_Deterministic ==
    (compileIn.Image # "" /\ ~HasBadDevice(compileIn)) =>
        \A i, j \in 1..Len(compiled) : compiled[i] = compiled[j]

\* C17 as stated: whenever ServeHTTP can run, every Service of the Image Index
\* has a non-empty Image, wherever the Config came from.
C17_NoEmptyImage ==
    phase = "serving" =>
        \A k \in DOMAIN imageToService : \A i \in 1..Len(imageToService[k]) :
            imageToService[k][i].Image # ""

\* C17, amended: a Config that LoadConfig returns has no Service with an empty
\* Image, so when the Config passed to New comes from LoadConfig every Service
\* of the Image Index has a non-empty Image whenever ServeHTTP can run.
C17_LoadedConfigHasImages ==
    origin = "LoadConfig" =>
        /\ phase \in {"init", "serving"} =>
               \A i \in 1..Len(conf) : conf[i].Image # ""
        /\ phase = "serving" =>
               \A k \in DOMAIN imageToService : \A i \in 1..Len(imageToService[k]) :
                   imageToService[k][i].Image # ""
        /\ "" \notin DOMAIN imageToService

C17_Witness ==
    /\ origin = "LoadConfig"
    /\ phase = "failed"
    /\ \E i \in 1..Len(conf) : conf[i].Image = ""

\* C18: a service with a device declaration that has no separator or more
\* than one makes compile return an error and New fail: the process never
\* serves, there is no Image Index and no event is handled.
C18_BadDeviceFailsStartup ==
    /\ \A i \in 1..Len(conf) :
           HasBadDevice(conf[i]) =>
               \A o \in MapOrders(conf[i]) : CreateContainerOptions(conf[i], o).err
    /\ (\E i \in 1..Len(conf) : HasBadDevice(conf[i])) =>
           /\ phase # "serving"
           /\ imageToService = EmptyMap
           /\ \A r \in Reqs : pc[r] = "idle" /\ calls[r] = <<>>

C18_Witness ==
    /\ phase = "failed"
    /\ \E i \in 1..Len(conf) : \E d \in 1..Len(conf[i].Devices) :
           Separators(conf[i].Devices[d]) > 1
    /\ \A i \in 1..Len(conf) : conf[i].Image # ""

\* C19: New compiles every configured service before serving starts, so
\* whenever ServeHTTP runs every service of the configuration is in the Image
\* Index and compiles without error; the error ServeHTTP ignores is nil.
C19_CompiledAtStartup ==
    phase = "serving" =>
        /\ \A i \in 1..Len(conf) :
               /\ conf[i].Image \in DOMAIN imageToService
               /\ \E n \in 1..Len(imageToService[conf[i].Image]) :
                      imageToService[conf[i].Image][n] = conf[i]
        /\ \A k \in DOMAIN imageToService : \A i \in 1..Len(imageToService[k]) :
               \A o \in MapOrders(imageToService[k][i]) :
                   ~CreateContainerOptions(imageToService[k][i], o).err
        /\ \A r \in Reqs :
               pc[r] \in {"list", "stop", "remove", "create", "start"} =>
                   \A o \in MapOrders(Current(r)) : ~CreateContainerOptions(Current(r), o).err

C19_Witness ==
    \E r \in Reqs :
        /\ pc[r] = "create"
        /\ Current(r).Devices # <<>>
        /\ ~HasBadDevice(Current(r))

(***************************************************************************)
(* Properties of concurrent events                                         *)
(***************************************************************************)
\* The handler is in the replacement of one service.
InStages(r) == pc[r] \in {"list", "stop", "remove", "create", "start"}

\* The next engine call of the handler, whatever its outcome.
StageStep(r) ==
    \E ok \in BOOLEAN :
        \/ ListContainers(r, ok)
        \/ StopContainer(r, ok)
        \/ RemoveContainer(r, ok)
        \/ CreateContainer(r, ok)
        \/ StartContainer(r, ok)

\* The event has issued a call of this operation whose first argument is arg.
Issued(r, op, arg) ==
    \E i \in Positions(r) : calls[r][i].op = op /\ calls[r][i].arg[1] = arg

\* C15: there is no mutual exclusion between events: a handler in the list,
\* stop, remove, create or start of a service can always take its next step,
\* wherever the other handlers are, the ones replacing the same service
\* included; so the stages of two events interleave in every order.
C15_NoMutualExclusion ==
    \A r \in Reqs : InStages(r) => ENABLED StageStep(r)

\* Two events have listed and selected the same existing container, both have
\* stopped and removed that id and both have asked for a container of the
\* same service name.
C15_Witness ==
    \E r, q \in Reqs :
        /\ r # q
        /\ pc[r] = "start" /\ pc[q] = "start"
        /\ id[r] # "" /\ id[r] = id[q]
        /\ \E i \in 1..Len(containers[r]) : containers[r][i].ID = id[r]
        /\ \E i \in 1..Len(containers[q]) : containers[q][i].ID = id[q]
        /\ Current(r).Name = Current(q).Name
        /\ \A x \in {r, q} :
               /\ Issued(x, "stop", id[x])
               /\ Issued(x, "remove", id[x])
               /\ Issued(x, "create", Current(x).Name)

\* C20: once New has built the Image Index no step changes it: while events
\* are served, in any interleaving, imageToService keeps its keys and lists.
C20_IndexNeverMutated ==
    [][phase = "serving" => imageToService' = imageToService]_vars

\* Two events are in flight at once, one of them resolved by the fallback to
\* the bare repository.
C20_Witness ==
    \E r, q \in Reqs :
        /\ r # q
        /\ InStages(r) /\ InStages(q)
        /\ hook[r].Tag = "latest"
        /\ (hook[r].RepoName \o ":" \o hook[r].Tag) \notin DOMAIN imageToService
        /\ foundServices[r] = imageToService[hook[r].RepoName]
        /\ imageToService = IndexServices(conf, 1, EmptyMap).index

(***************************************************************************)
(* Properties of the restart policy                                        *)
(***************************************************************************)
\* C21: the restart policy of a compiled service comes from one path only:
\* with a deploy-level policy its name is the policy's condition and its
\* maximum retry count is the policy's max-attempts, zero when that is absent,
\* whatever the legacy restart string; without one its name is the legacy
\* restart string and its maximum retry count is zero.
C21_RestartPolicyOnePath ==
    \A i \in 1..Len(compiled) :
        ~compiled[i].err =>
            LET got == compiled[i].RestartPolicy IN
            IF compileIn.RestartPolicy # NoRestartPolicy
            THEN LET policy == compileIn.RestartPolicy[1] IN
                 /\ got.Name = policy.Condition
                 /\ got.MaximumRetryCount =
                        IF policy.MaxAttempts # <<>>
                        THEN [neg |-> FALSE, mag |-> policy.MaxAttempts[1]]
                        ELSE GoInt(0)
            ELSE /\ got.Name = compileIn.Restart
                 /\ got.MaximumRetryCount = GoInt(0)

(***************************************************************************)
(* Properties of the loop over the matched services                        *)
(***************************************************************************)
StageOps == {"list", "stop", "remove", "create", "start"}

\* The positions of the calls made for the k-th matched service.
CallsFor(r, k) ==
    {i \in Positions(r) : calls[r][i].op \in StageOps /\ calls[r][i].svc = k}

\* The last call of the event is a list call.
JustListed(r) == calls[r] # <<>> /\ calls[r][Len(calls[r])].op = "list"

\* The calls of an event are grouped by service in the order of the Image
\* Index list, which is the order of the configuration, and each group starts
\* with its one list call.
C22_InIndexOrder ==
    \A r \in Reqs :
        /\ \A i, j \in Positions(r) :
               (i < j /\ calls[r][i].op \in StageOps /\ calls[r][j].op \in StageOps) =>
                   calls[r][i].svc <= calls[r][j].svc
        /\ \A i \in Positions(r) :
               calls[r][i].op \in StageOps =>
                   /\ calls[r][i].svc \in 1..Len(foundServices[r])
                   /\ \A k \in 1..(calls[r][i].svc - 1) : CallsFor(r, k) # {}
                   /\ calls[r][i].op = "create" =>
                          calls[r][i].arg[1] = foundServices[r][calls[r][i].svc].Name
        /\ \A k \in 1..Len(foundServices[r]) :
               CallsFor(r, k) # {} =>
                   /\ Cardinality({i \in CallsFor(r, k) : calls[r][i].op = "list"}) = 1
                   /\ \E i \in CallsFor(r, k) :
                          /\ calls[r][i].op = "list"
                          /\ \A j \in CallsFor(r, k) : i <= j
        /\ \A a, b \in 1..Len(foundServices[r]) :
               a < b => \E p, q \in 1..Len(conf) :
                            p < q /\ conf[p] = foundServices[r][a] /\ conf[q] = foundServices[r][b]
        /\ (JustListed(r) /\ ~calls[r][Len(calls[r])].ok) => containers[r] = <<>>

\* A successful list call hands the handler the containers the engine has when
\* it is made.
C22_LiveListing ==
    \A r \in Reqs :
        (pc[r] = "list" /\ pc'[r] # "list" /\ calls'[r][Len(calls'[r])].ok) =>
            containers'[r] = engine

\* C22: the matched services of an event are handled one after another in the
\* order of the Image Index list, which is the order of the configuration:
\* every call for the i-th service comes before every call for the next one,
\* each service's calls start with its own single list call, and that call
\* returns the containers the engine has at that moment.
C22_SequentialInIndexOrder == []C22_InIndexOrder /\ [][C22_LiveListing]_vars

\* The second service of an event has just been listed, and the listing has
\* the container the event created for the first one.
C22_Witness ==
    \E r \in Reqs :
        /\ idx[r] = 2
        /\ JustListed(r)
        /\ \E i \in Positions(r) :
               /\ calls[r][i].op = "create" /\ calls[r][i].ok /\ calls[r][i].svc = 1
               /\ \E c \in 1..Len(containers[r]) : containers[r][c].ID = calls[r][i].res

\* The key of the Image Index the event resolved to.
ResolvedKey(r) ==
    IF (RepoOf(r) \o ":" \o TagOf(r)) \in DOMAIN imageToService
    THEN RepoOf(r) \o ":" \o TagOf(r)
    ELSE RepoOf(r)

\* The event was answered 200 after matching services.
MatchedOK(r) ==
    /\ body[r].valid
    /\ ~Unmatched(r)
    /\ \E i \in Positions(r) : calls[r][i] = Respond(StatusOK)

\* C23: the Image Index groups the services by their exact image string: an
\* event answered 200 has called create and start exactly once for every
\* configured service whose Image is the resolved key, and no event calls
\* stop, remove, create or start for a service with another Image.
C23_FanOut ==
    \A r \in Reqs :
        /\ MatchedOK(r) =>
               \A n \in 1..Len(conf) :
                   conf[n].Image = ResolvedKey(r) =>
                       /\ Cardinality({i \in Positions(r) :
                              /\ calls[r][i].op = "create"
                              /\ calls[r][i].arg = <<conf[n].Name, conf[n].Image>>}) = 1
                       /\ \E i \in Positions(r) :
                              /\ calls[r][i].op = "create"
                              /\ calls[r][i].arg = <<conf[n].Name, conf[n].Image>>
                              /\ Cardinality({j \in Positions(r) :
                                     /\ calls[r][j].op = "start"
                                     /\ calls[r][j].svc = calls[r][i].svc}) = 1
                              /\ \E j \in Positions(r) :
                                     /\ i < j
                                     /\ calls[r][j].op = "start"
                                     /\ calls[r][j].arg = <<calls[r][i].res>>
        /\ (pc[r] # "idle" /\ body[r].valid /\ ~Unmatched(r)) =>
               /\ \A i \in Positions(r) :
                      calls[r][i].op \in StageOps =>
                          foundServices[r][calls[r][i].svc].Image = ResolvedKey(r)
               /\ \A n \in 1..Len(conf) :
                      conf[n].Image # ResolvedKey(r) =>
                          /\ \A i \in Positions(r) :
                                 calls[r][i].op = "create" => calls[r][i].arg[1] # conf[n].Name
                          /\ (id[r] # "" /\ pc[r] \in {"stop", "remove", "create", "start"}) =>
                                 \A c \in 1..Len(containers[r]) :
                                     containers[r][c].ID = id[r] =>
                                         ~sliceContains(containers[r][c].Names, "/" \o conf[n].Name)

\* An event answered 200 for an image that two of the three configured
\* services have.
C23_Witness ==
    \E r \in Reqs :
        /\ MatchedOK(r)
        /\ Cardinality({n \in 1..Len(conf) : conf[n].Image = ResolvedKey(r)}) = 2
        /\ \E n \in 1..Len(conf) : conf[n].Image # ResolvedKey(r)
        /\ CountOp(r, "create") = 2 /\ CountOp(r, "start") = 2

\* The list call at position i of the event has failed.
ListFailed(r, i) == calls[r][i].op = "list" /\ ~calls[r][i].ok

\* C24: a failed list call does not end the event: no container is selected,
\* so stop and remove are skipped and the next call is the create of the same
\* service; the event is aborted only by a later create or start failure.
C24_ListFailureSoldiersOn ==
    \A r \in Reqs : \A i \in Positions(r) :
        ListFailed(r, i) =>
            /\ calls[r][i].res = ""
            /\ \A j \in CallsFor(r, calls[r][i].svc) : calls[r][j].op \notin {"stop", "remove"}
            /\ IF i = Len(calls[r])
               THEN pc[r] = "create" /\ containers[r] = <<>> /\ id[r] = ""
               ELSE /\ calls[r][i + 1].op = "create"
                    /\ calls[r][i + 1].svc = calls[r][i].svc
            /\ (pc[r] = "done" /\ ~Failed(r, {"create", "start"})) =>
                   /\ Codes(r) = <<StatusOK>>
                   /\ CountOp(r, "callback") = 1

\* An event whose list call failed while the engine had a container of the
\* service: the container was left alone, create and start were called and
\* the event ended with 200 and the callback.
C24_Witness ==
    \E r \in Reqs : \E i \in Positions(r) :
        /\ ListFailed(r, i)
        /\ pc[r] = "done"
        /\ Codes(r) = <<StatusOK>>
        /\ calls[r][Len(calls[r])].op = "callback"
        /\ CountOp(r, "create") >= 1 /\ CountOp(r, "start") >= 1
        /\ \E c \in 1..Len(engine) :
               /\ engine[c].ID = "c1"
               /\ sliceContains(engine[c].Names, "/" \o foundServices[r][calls[r][i].svc].Name)

\* The handler is past the list call of the current service.
PastList(r) == pc[r] \in {"stop", "remove", "create", "start"}

\* C25: stop and remove are called only with the id that the list call of the
\* same service returned: the id of the first listed container one of whose
\* names is "/" + the service's name; start is called only with the id the
\* create call of the same service returned. A listed container without that
\* name is never stopped or removed.
C25_OnlyNamedContainers ==
    \A r \in Reqs :
        /\ \A i \in Positions(r) :
               /\ calls[r][i].op \in {"stop", "remove"} =>
                      \E j \in Positions(r) :
                          /\ j < i
                          /\ calls[r][j].op = "list" /\ calls[r][j].ok
                          /\ calls[r][j].svc = calls[r][i].svc
                          /\ calls[r][j].res # ""
                          /\ calls[r][i].arg = <<calls[r][j].res>>
               /\ calls[r][i].op = "start" =>
                      /\ i > 1
                      /\ calls[r][i - 1].op = "create" /\ calls[r][i - 1].ok
                      /\ calls[r][i - 1].svc = calls[r][i].svc
                      /\ calls[r][i - 1].res # ""
                      /\ calls[r][i].arg = <<calls[r][i - 1].res>>
        /\ PastList(r) =>
               /\ id[r] = IF Named(containers[r], Current(r).Name)
                          THEN FirstNamed(containers[r], Current(r).Name) ELSE ""
               /\ \E j \in CallsFor(r, idx[r]) :
                      calls[r][j].op = "list" /\ calls[r][j].res = id[r]
               /\ \A j \in CallsFor(r, idx[r]) :
                      calls[r][j].op \in {"stop", "remove"} =>
                          /\ calls[r][j].arg = <<id[r]>>
                          /\ \E c \in 1..Len(containers[r]) :
                                 /\ containers[r][c].ID = id[r]
                                 /\ \E k \in 1..Len(containers[r][c].Names) :
                                        containers[r][c].Names[k] = "/" \o Current(r).Name
        /\ pc[r] = "start" => cID[r] = calls[r][Len(calls[r])].res

\* The container of the service was not the first of the listing: the one
\* before it, whose names only resemble the service's, was passed over, and
\* the named one was stopped and removed before the create.
C25_Witness ==
    \E r \in Reqs :
        /\ pc[r] = "start"
        /\ id[r] # ""
        /\ \E c \in 1..Len(containers[r]) :
               /\ containers[r][c].ID # id[r]
               /\ \E k \in 1..Len(containers[r][c].Names) :
                      containers[r][c].Names[k] = "/proxy" \o "/" \o Current(r).Name
                          \/ containers[r][c].Names[k] = "/" \o Current(r).Name \o "x"
        /\ Issued(r, "stop", id[r]) /\ Issued(r, "remove", id[r])

\* The configuration has services under repository:latest and services under
\* the bare repository, and the event is for that repository and "latest".
BothKeys(r) ==
    /\ pc[r] # "idle" /\ body[r].valid
    /\ TagOf(r) = "latest"
    /\ (RepoOf(r) \o ":latest") \in DOMAIN imageToService
    /\ RepoOf(r) \in DOMAIN imageToService

\* C26: the services of one event are those of one key of the Image Index.
\* With services under both repository:latest and the bare repository, an
\* event for the tag "latest" handles the ones under repository:latest only:
\* no call is made for a service of the bare repository.
C26_OneKeyOnly ==
    \A r \in Reqs :
        /\ (pc[r] # "idle" /\ foundServices[r] # <<>>) =>
               \E k \in DOMAIN imageToService :
                   /\ foundServices[r] = imageToService[k]
                   /\ \A n \in 1..Len(foundServices[r]) : foundServices[r][n].Image = k
        /\ BothKeys(r) =>
               /\ foundServices[r] = imageToService[RepoOf(r) \o ":latest"]
               /\ \A i \in Positions(r) :
                      calls[r][i].op \in StageOps =>
                          foundServices[r][calls[r][i].svc].Image = RepoOf(r) \o ":latest"
               /\ \A n \in 1..Len(imageToService[RepoOf(r)]) :
                      LET bare == imageToService[RepoOf(r)][n] IN
                      /\ \A i \in Positions(r) :
                             calls[r][i].op = "create" => calls[r][i].arg[1] # bare.Name
                      /\ CountOp(r, "list") <= Len(imageToService[RepoOf(r) \o ":latest"])
                      /\ (PastList(r) /\ id[r] # "") =>
                             \A c \in 1..Len(containers[r]) :
                                 containers[r][c].ID = id[r] =>
                                     \A x \in 1..Len(containers[r][c].Names) :
                                         containers[r][c].Names[x] # "/" \o bare.Name

\* Such an event has ended with 200 after one create, and the container of
\* the service under the bare repository is still what the engine had.
C26_Witness ==
    \E r \in Reqs :
        /\ BothKeys(r)
        /\ pc[r] = "done"
        /\ Codes(r) = <<StatusOK>>
        /\ CountOp(r, "create") = 1
        /\ \E n \in 1..Len(imageToService[RepoOf(r)]) : \E c \in 1..Len(engine) :
               /\ engine[c].ID = "c2"
               /\ engine[c].State = "exited"
               /\ \E x \in 1..Len(engine[c].Names) :
                      engine[c].Names[x] = "/" \o imageToService[RepoOf(r)][n].Name

====
